---- MODULE Spec2Model ----
(***************************************************************************)
(* Model of the PDF parsing pipeline of parsing-graph:                     *)
(*   backend/models/state.py      ParserState, JobStatus, set_error, ...   *)
(*   backend/langgraph/nodes.py   the eight pipeline nodes                 *)
(*   backend/langgraph/graph.py   the graph edges and run_parsing_flow     *)
(* One run of run_parsing_flow is modelled.  Every node is one action; the *)
(* external services (PDF service, LLM, file system) answer                *)
(* nondeterministically with a result or a failure.                        *)
(* The state dictionary is modelled key by key; its logs and timestamps    *)
(* are left out.  Error messages are modelled up to the interpolated text  *)
(* of the exception.                                                       *)
(***************************************************************************)
EXTENDS Integers, Sequences, FiniteSets, TLC

(***************************************************************************)
(* Bounds of the model                                                     *)
(***************************************************************************)
MaxPages == 2          \* short documents have 1..MaxPages pages
MaxWindow == 2         \* window_size ranges over 1..MaxWindow
MaxDetected == 2       \* a detection response reports at most this many indices
MaxItems == 2          \* an outline response has at most this many entries
MaxSpans == 3          \* a span list examined on its own has at most this many spans
MaxEntries == 3        \* an entry list examined on its own has at most this many entries
MaxTotal == 3          \* range calculation on its own sees total_pages up to this
MaxTitle == 4          \* extraction on its own sees titles of up to this many characters
MaxContent == 4        \* ... and page texts of up to this many characters
MaxRuns == 2           \* persisting on its own is run up to this many times

(***************************************************************************)
(* Program constants                                                       *)
(***************************************************************************)
RecursionLimit == 25   \* supersteps app.ainvoke runs with its default config
DefaultWindowSize == 5 \* create_initial_state(doc_id) in the except branch

\* JobStatus
IDLE == "idle"
RUNNING == "running"
DETECTED == "detected"
PARSED == "parsed"
EXTRACTED == "extracted"
COMPLETED == "completed"
FAILED == "failed"

\* graph node names
END == "__end__"

\* error messages (the text up to the interpolated exception)
NoError == "(absent)"
E_INVALID_DOC == "invalid document: page count"
E_DOC_INFO == "doc info lookup failed"
E_DETECT_JSON == "toc detection response parse failed"
E_DETECT == "toc detection failed"
E_NO_TOC_PAGES == "no toc page found"
E_SPANS_EMPTY == "span data extraction failed"
E_SPANS == "span extraction failed"
E_NO_SPANS == "no span data to parse"
E_NO_BLOCKS == "no valid text block"
E_LLM_JSON == "toc parsing response parse failed"
E_LLM_MESSAGE == "message reported by the outline response"
E_LLM == "toc parsing failed"
E_NO_ITEMS == "no toc data to calculate"
E_CALC == "page_end calculation failed"
E_NO_PARSED == "no section data to extract"
E_RANGES == "range extraction failed"
E_NO_SECTIONS == "no section data to save"
E_CSV == "csv save failed"
E_ENGINE == "GraphRecursionError"

\* the page counts the PDF service may report: invalid ones, short documents,
\* and one document with as many pages as the engine runs supersteps
PageCounts == (-1..MaxPages) \cup {RecursionLimit}

\* the page indices a detection response may report
DetectPool == {0, 1}

VARIABLES
  pc,            \* the node the engine runs next (END: the run has returned)
  steps,         \* supersteps executed by app.ainvoke
  doc_id,        \* state["doc_id"]
  window_size,   \* state["window_size"]
  has_total,     \* "total_pages" in state
  total_pages,   \* state["total_pages"]
  window_start,  \* state["window_start"]
  toc_pages,     \* state["toc_pages"]
  spans,         \* state["spans"] (<<>> when absent)
  toc_parsed,    \* state["toc_parsed"]
  sections,      \* state["sections"] (<<>> when absent)
  csv_path,      \* state["csv_path"]
  job_status,    \* state["job_status"]
  error,         \* state["error"]
  logs,          \* len(state["logs"]): the entries appended so far
  updated_at,    \* state["updated_at"], counted in supersteps of the run
  ext,           \* the external services: what was asked of them so far
  fs,            \* the output directory
  response,      \* the answers the services hold ready, when a single
                 \* visit is examined (NoResponse in a pipeline run)
  listing        \* what GET /docs/{doc_id}/sections answered last

vars == <<pc, steps, doc_id, window_size, has_total, total_pages, window_start,
          toc_pages, spans, toc_parsed, sections, csv_path, job_status,
          error, logs, updated_at, ext, fs, response, listing>>

stateVars == <<doc_id, window_size, has_total, total_pages, window_start, toc_pages,
               spans, toc_parsed, sections, csv_path, job_status, error,
               logs, updated_at>>

(***************************************************************************)
(* Helpers                                                                 *)
(***************************************************************************)
Min(a, b) == IF a <= b THEN a ELSE b

Max(a, b) == IF a >= b THEN a ELSE b

ToSet(s) == {s[i] : i \in DOMAIN s}

\* sorted(list(S)) for a finite set of integers
RECURSIVE SortedSeq(_)
SortedSeq(S) ==
  IF S = {} THEN <<>>
  ELSE LET m == CHOOSE x \in S : \A y \in S : x <= y
       IN <<m>> \o SortedSeq(S \ {m})

\* all sequences over S of length at most n
SeqUpTo(S, n) == UNION {[1..k -> S] : k \in 0..n}

(***************************************************************************)
(* Text: a str is the sequence of its characters                           *)
(***************************************************************************)
\* str.lower() on the characters that occur
LowerChar(c) ==
  CASE c = "A" -> "a"
    [] c = "T" -> "t"
    [] c = "F" -> "f"
    [] OTHER -> c

Lower(s) == [i \in DOMAIN s |-> LowerChar(s[i])]

\* the characters str.strip() removes
IsSpace(c) == c \in {" ", "\n", "\r"}

\* s.strip()
Strip(s) ==
  LET kept == {i \in DOMAIN s : ~IsSpace(s[i])}
  IN IF kept = {} THEN <<>>
     ELSE SubSeq(s, CHOOSE i \in kept : \A j \in kept : i <= j,
                    CHOOSE i \in kept : \A j \in kept : i >= j)

\* s[p:p + len(t)] == t, for a 0-based p
OccursAt(s, t, p) ==
  /\ p + Len(t) <= Len(s)
  /\ \A k \in 1..Len(t) : s[p + k] = t[k]

\* s.find(t): the lowest index at which t occurs in s, or -1
Find(s, t) ==
  LET at == {p \in 0..(Len(s) - Len(t)) : OccursAt(s, t, p)}
  IN IF at = {} THEN -1 ELSE CHOOSE p \in at : \A q \in at : p <= q

\* s[p:]
From(s, p) == SubSeq(s, p + 1, Len(s))

\* the characters SequenceMatcher drops from its index of b (autojunk): in
\* a b of 200 characters or more, those that occur more than
\* len(b) // 100 + 1 times
Popular(b) ==
  IF Len(b) >= 200
  THEN {c \in ToSet(b) :
          Cardinality({j \in DOMAIN b : b[j] = c}) > (Len(b) \div 100) + 1}
  ELSE {}

\* SequenceMatcher(None, a, b).find_longest_match(0, len(a), 0, len(b)): the
\* longest block a[i:i+k] == b[j:j+k] without popular characters, the one
\* that starts earliest in a, then earliest in b; the block is then
\* extended to the left and to the right while the characters agree
FindLongestMatch(a, b) ==
  LET popular == Popular(b)
      blocks == {m \in (0..Len(a)) \X (0..Len(b)) \X (0..Len(a)) :
                   /\ m[1] + m[3] <= Len(a)
                   /\ m[2] + m[3] <= Len(b)
                   /\ \A k \in 1..m[3] :
                        a[m[1] + k] = b[m[2] + k] /\ b[m[2] + k] \notin popular}
      Better(m, n) ==
        \/ m[3] > n[3]
        \/ m[3] = n[3] /\ m[1] < n[1]
        \/ m[3] = n[3] /\ m[1] = n[1] /\ m[2] <= n[2]
      best == CHOOSE m \in blocks : \A n \in blocks : Better(m, n)
      lefts == {d \in 0..Min(best[1], best[2]) :
                  \A k \in 1..d : a[best[1] - k + 1] = b[best[2] - k + 1]}
      left == CHOOSE d \in lefts : \A e \in lefts : d >= e
      i == best[1] - left
      j == best[2] - left
      size == best[3] + left
      rights == {d \in 0..Min(Len(a) - i - size, Len(b) - j - size) :
                   \A k \in 1..d : a[i + size + k] = b[j + size + k]}
      right == CHOOSE d \in rights : \A e \in rights : d >= e
  IN [a |-> i, b |-> j, size |-> size + right]

DigitChars == <<"0", "1", "2", "3", "4", "5", "6", "7", "8", "9">>

\* str(n) for an integer n
RECURSIVE Digits(_)
Digits(n) ==
  IF n < 0 THEN <<"-">> \o Digits(0 - n)
  ELSE IF n < 10 THEN <<DigitChars[n + 1]>>
  ELSE Digits(n \div 10) \o <<DigitChars[(n % 10) + 1]>>

\* s.count(t): the occurrences of t in s that do not overlap
RECURSIVE Count(_, _)
Count(s, t) ==
  LET p == Find(s, t)
  IN IF p = -1 THEN 0 ELSE 1 + Count(From(s, p + Len(t)), t)

\* no path: state.get("csv_path") is None
NoPath == <<>>

\* the document of the run
DocId == <<"d">>

\* the section listing was not asked for
NoListing == [status |-> 0, sections |-> <<>>]

NoParsed == [present |-> FALSE, status |-> 500, parsed |-> <<>>]

\* the value of one key of a JSON object: the key is absent, or it holds
\* null, or it holds a string
KeyAbsent == [t |-> "absent", s |-> <<>>]

JsonNull == [t |-> "null", s |-> <<>>]

Str(s) == [t |-> "str", s |-> s]

\* the five naming keys of an entry
Labels(jo, kwan, l3, l2, l1) ==
  [jo |-> jo, kwan |-> kwan, level_3 |-> l3, level_2 |-> l2, level_1 |-> l1]

\* an entry named by level_1 alone
OnlyLevel1(title) == Labels(KeyAbsent, KeyAbsent, KeyAbsent, KeyAbsent, Str(title))

\* one entry of the outline response: a proper entry, an entry whose
\* page_start int() rejects, or an element that is no JSON object.  label
\* holds the entry's naming keys (level_1, level_2, level_3, kwan, jo)
EntryWith(ps, pe, labels) ==
  [kind |-> "ok", page_start |-> ps, page_end |-> pe, label |-> labels]

\* the entry whose level_1 is the one-character string name
Entry(ps, pe, name) == EntryWith(ps, pe, OnlyLevel1(<<name>>))

OkItem(ps, pe) == Entry(ps, pe, "a")

BadStartItem ==
  [kind |-> "badstart", page_start |-> 0, page_end |-> 0,
   label |-> OnlyLevel1(<<"a">>)]

NotDictItem ==
  [kind |-> "notdict", page_start |-> 0, page_end |-> 0,
   label |-> OnlyLevel1(<<"a">>)]

ItemPool == {OkItem(1, 0), OkItem(0, 7), BadStartItem, NotDictItem}

\* the "parsed" lists an outline response may carry
ParsedLists == SeqUpTo(ItemPool, MaxItems)

\* the span lists the PDF service may return: a span is its sort key
\* (page, line_id, span_id) and the length of its stripped text
SpanAt(p, l, k, n) == [page |-> p, line_id |-> l, span_id |-> k, textlen |-> n]

Span(p, l, n) == SpanAt(p, l, 0, n)

SpanLists == {<<>>, <<Span(0, 0, 1)>>, <<Span(0, 1, 4), Span(0, 0, 3)>>}

(***************************************************************************)
(* models/state.py                                                         *)
(***************************************************************************)
\* logs=[] of create_initial_state: no entry
NoLogs == 0

\* datetime.utcnow() during the superstep that is running
Now == steps + 1

\* an update_state_status that is handed no log message
StatusLogSilent(status) == <<>>

\* update_state_status: the entry f"[{status}] {log_message}"
StatusLog(status) == <<status>>

\* add_log(state, message): the entry f"[{timestamp}] INFO: {message}"
AddLog == <<"INFO">>

\* set_error: add_log(state, f"ERROR: {error_message}", "ERROR")
SetErrorLog == <<"ERROR">>

\* node_detect_toc_window after a response: the window line and, if pages
\* were detected, the line with the reason
DetectLogs(detected) == IF detected # <<>> THEN AddLog \o AddLog ELSE AddLog

\* entries are appended to state["logs"] and state["updated_at"] is set
Logged(entries) ==
  /\ logs' = logs + Len(entries)
  /\ updated_at' = Now

\* the entries of a run without an error that examined one window with
\* detected pages, up to the visit of write_csv
RunLog ==
  StatusLog(RUNNING) \o AddLog \o AddLog \o StatusLog(DETECTED)
    \o StatusLog(PARSED) \o AddLog \o StatusLog(EXTRACTED)

\* the log of such a run when it reaches the node
LogsAt(node) ==
  Len(SubSeq(RunLog, 1, CASE node = "doc_info" -> 0
                      [] node = "detect_toc" -> 1
                      [] node = "llm_toc" -> 4
                      [] node = "calc_end" -> 5
                      [] node = "extract_ranges" -> 6
                      [] node = "write_csv" -> 7))

\* a set_error that records the message and leaves job_status alone
SetErrorStatusKept(current) == current

\* set_error: state["job_status"] = JobStatus.FAILED
SetErrorStatus(current) == FAILED

\* node_fail: update_state_status(state, JobStatus.FAILED, ...)
NodeFailStatus(current) == FAILED

\* node_fail reads state.get("error", ...) for the log line only
NodeFailError(current) == current

(***************************************************************************)
(* langgraph/nodes.py: node_detect_toc_window                              *)
(***************************************************************************)
\* a window end that is not clamped to the document
WindowEndUnclamped(start, ws, total) == start + ws

\* end = min(start + ws, total)
WindowEnd(start, ws, total) == Min(start + ws, total)

\* pages = list(range(start, end))
WindowPages(start, end) == start..(end - 1)

\* a merge that keeps only what the last response reported
MergePagesReplace(existing, detected) == SortedSeq(ToSet(detected))

\* a merge that appends the reported pages as they come
MergePagesAppend(existing, detected) == existing \o detected

\* sorted(list(set(existing_pages + detected_pages)))
MergePages(existing, detected) == SortedSeq(ToSet(existing \o detected))

\* state["window_start"] = end
NextCursor(start, end) == end

(***************************************************************************)
(* langgraph/graph.py: the conditional edges                               *)
(***************************************************************************)
\* a routing that leaves the loop as soon as a TOC page is known
CondAfterDetectEager(hasTotal, total, cursor, toc) ==
  LET tp == IF hasTotal THEN total ELSE 0
  IN IF toc # <<>> THEN "extract_spans"
     ELSE IF cursor < tp THEN "detect_toc"
     ELSE "fail"

CondAfterDetect(hasTotal, total, cursor, toc) ==
  LET tp == IF hasTotal THEN total ELSE 0
  IN IF cursor < tp THEN "detect_toc"
     ELSE IF toc # <<>> THEN "extract_spans"
     ELSE "fail"

CondAfterParse(tp) ==
  IF tp.present /\ tp.status = 200 /\ tp.parsed # <<>> THEN "calc_end"
  ELSE "fail"

(***************************************************************************)
(* Initial state: create_initial_state(doc_id, window_size)                *)
(***************************************************************************)
\* the outline service was not asked
NoOutline == [outcome |-> "none", status |-> 0, entries |-> 0]

\* nothing was asked yet.  counted/doc_pages: the page count the PDF service
\* reported; nreq: detection requests issued; lo..hi-1: the pages of the
\* last one; gap/overlap: some request started after/before the end of the
\* one before it; nfail: detection calls that failed; span_reqs, llm_reqs,
\* read_reqs: span, outline and content requests issued; blocks: the
\* descriptor lines of the outline request; outline: how the outline call
\* ended, and the status and number of entries of its response;
\* write_fails: file writes of write_csv that raised
NoRequests ==
  [counted |-> FALSE, doc_pages |-> 0,
   nreq |-> 0, lo |-> 0, hi |-> 0, gap |-> FALSE, overlap |-> FALSE,
   nfail |-> 0, span_reqs |-> 0, llm_reqs |-> 0, read_reqs |-> 0,
   blocks |-> <<>>, outline |-> NoOutline, write_fails |-> 0]

\* settings.OUTPUT_DIR before the run: no directory, no file
EmptyDir == [dirs |-> {}, files |-> <<>>]

NoResponse == [outcome |-> "none", pages |-> <<>>]

Init ==
  /\ pc = "doc_info"
  /\ steps = 0
  /\ doc_id = DocId
  /\ listing = NoListing
  /\ window_size \in 1..MaxWindow
  /\ has_total = FALSE
  /\ total_pages = 0
  /\ window_start = 0
  /\ toc_pages = <<>>
  /\ spans = <<>>
  /\ toc_parsed = NoParsed
  /\ sections = <<>>
  /\ csv_path = NoPath
  /\ job_status = IDLE
  /\ error = NoError
  /\ logs = NoLogs
  /\ updated_at = 0
  /\ ext = NoRequests
  /\ fs = EmptyDir
  /\ response = NoResponse

\* the engine runs the node pc names as its next superstep
Runs(node) == pc = node /\ steps < RecursionLimit /\ steps' = steps + 1

(***************************************************************************)
(* node_doc_info                                                           *)
(***************************************************************************)
DocInfo ==
  /\ Runs("doc_info")
  /\ \E ok \in BOOLEAN, n \in PageCounts :
       IF ~ok
       THEN \* pdf_get_info raised
            /\ error' = E_DOC_INFO
            /\ job_status' = SetErrorStatus(job_status)
            /\ Logged(SetErrorLog)
            /\ UNCHANGED <<has_total, total_pages, ext>>
       ELSE IF n <= 0
       THEN /\ error' = E_INVALID_DOC
            /\ job_status' = SetErrorStatus(job_status)
            /\ Logged(SetErrorLog)
            /\ ext' = [ext EXCEPT !.counted = TRUE, !.doc_pages = n]
            /\ UNCHANGED <<has_total, total_pages>>
       ELSE /\ has_total' = TRUE
            /\ total_pages' = n
            /\ job_status' = RUNNING
            /\ Logged(StatusLog(RUNNING))
            /\ ext' = [ext EXCEPT !.counted = TRUE, !.doc_pages = n]
            /\ UNCHANGED error
  /\ pc' = "detect_toc"
  /\ UNCHANGED <<doc_id, listing, response, window_size, window_start, toc_pages, spans, toc_parsed,
                 sections, csv_path, fs>>

(***************************************************************************)
(* node_detect_toc_window, followed by cond_after_detect                   *)
(***************************************************************************)
\* the detection request for pages lo..hi-1 is recorded
Requested(e, lo, hi) ==
  [e EXCEPT !.nreq = @ + 1, !.lo = lo, !.hi = hi,
            !.gap = @ \/ (lo > e.hi),
            !.overlap = @ \/ (lo < e.hi)]

DetectResponses == SeqUpTo(DetectPool, MaxDetected)

\* one visit of the node when the detection call ends with outcome and,
\* if it is "ok", reports the pages detected
DetectVisitWith(outcome, detected) ==
  /\ Runs("detect_toc")
  /\ IF ~has_total
     THEN \* state["total_pages"] raises KeyError before any request
          /\ error' = E_DETECT
          /\ job_status' = SetErrorStatus(job_status)
          /\ Logged(SetErrorLog)
          /\ UNCHANGED <<toc_pages, window_start, ext>>
     ELSE LET start == window_start
              end == WindowEnd(start, window_size, total_pages)
              asked == Requested(ext, start, end)
          IN   IF outcome = "ok"
               THEN /\ toc_pages' = MergePages(toc_pages, detected)
                    /\ window_start' = NextCursor(start, end)
                    /\ ext' = asked
                    /\ UNCHANGED <<error, job_status>>
                    /\ Logged(DetectLogs(detected))
               ELSE /\ error' = (IF outcome = "raise" THEN E_DETECT ELSE E_DETECT_JSON)
                    /\ job_status' = SetErrorStatus(job_status)
                    /\ Logged(SetErrorLog)
                    /\ ext' = [asked EXCEPT !.nfail = @ + 1]
                    /\ UNCHANGED <<toc_pages, window_start>>
  /\ pc' = CondAfterDetect(has_total, total_pages, window_start', toc_pages')
  /\ UNCHANGED <<doc_id, listing, response, window_size, has_total, total_pages, spans, toc_parsed,
                 sections, csv_path, fs>>

\* what a detection call can end with
DetectOutcomes ==
  {[outcome |-> "raise", pages |-> <<>>], [outcome |-> "badjson", pages |-> <<>>]}
    \cup {[outcome |-> "ok", pages |-> d] : d \in DetectResponses}

DetectToc ==
  /\ pc = "detect_toc"
  /\ \E r \in DetectOutcomes : DetectVisitWith(r.outcome, r.pages)

(***************************************************************************)
(* node_extract_spans                                                      *)
(***************************************************************************)
ExtractSpans ==
  /\ Runs("extract_spans")
  /\ IF toc_pages = <<>>
     THEN /\ error' = E_NO_TOC_PAGES
          /\ job_status' = SetErrorStatus(job_status)
          /\ Logged(SetErrorLog)
          /\ UNCHANGED <<spans, ext>>
     ELSE /\ ext' = [ext EXCEPT !.span_reqs = @ + 1]
          /\ \E ok \in BOOLEAN, result \in SpanLists :
               IF ~ok
               THEN \* pdf_parse_layout_spans raised
                    /\ error' = E_SPANS
                    /\ job_status' = SetErrorStatus(job_status)
                    /\ Logged(SetErrorLog)
                    /\ UNCHANGED spans
               ELSE IF result = <<>>
               THEN /\ error' = E_SPANS_EMPTY
                    /\ job_status' = SetErrorStatus(job_status)
                    /\ Logged(SetErrorLog)
                    /\ UNCHANGED spans
               ELSE /\ spans' = result
                    /\ job_status' = DETECTED
                    /\ Logged(StatusLog(DETECTED))
                    /\ UNCHANGED error
  /\ pc' = "llm_toc"
  /\ UNCHANGED <<doc_id, listing, response, window_size, has_total, total_pages, window_start, toc_pages,
                 toc_parsed, sections, csv_path, fs>>

(***************************************************************************)
(* node_llm_parse_toc, followed by cond_after_parse                        *)
(***************************************************************************)
\* a key that leaves span_id out
KeyLeqNoSpanId(a, b) ==
  \/ a.page < b.page
  \/ a.page = b.page /\ a.line_id <= b.line_id

\* the sort key (page, line_id, span_id), compared as Python compares tuples
KeyLeq(a, b) ==
  \/ a.page < b.page
  \/ a.page = b.page /\ a.line_id < b.line_id
  \/ a.page = b.page /\ a.line_id = b.line_id /\ a.span_id <= b.span_id

\* sorted(spans, key=...): a stable sort
RECURSIVE InsertByKey(_, _)
InsertByKey(sorted, sp) ==
  IF sorted = <<>> THEN <<sp>>
  ELSE IF KeyLeq(sorted[Len(sorted)], sp)
       THEN Append(sorted, sp)
       ELSE Append(InsertByKey(SubSeq(sorted, 1, Len(sorted) - 1), sp),
                   sorted[Len(sorted)])

RECURSIVE SortSpans(_)
SortSpans(ss) ==
  IF ss = <<>> THEN <<>>
  ELSE InsertByKey(SortSpans(SubSeq(ss, 1, Len(ss) - 1)), ss[Len(ss)])

\* a filter that drops empty texts only
ValidSpansNonEmpty(ss) == SelectSeq(ss, LAMBDA sp : sp.textlen >= 1)

\* spans whose stripped text has at least two characters become blocks
ValidSpans(ss) == SelectSeq(ss, LAMBDA sp : sp.textlen >= 2)

\* the line of one span: 1-based page and line, then the text
Descriptor(sp) ==
  [page |-> sp.page + 1, line |-> sp.line_id + 1, textlen |-> sp.textlen]

\* the blocks built from spans_sorted
Blocks(ss) ==
  LET kept == ValidSpans(SortSpans(ss))
  IN [k \in 1..Len(kept) |-> Descriptor(kept[k])]

\* status != 200 or not parsed_items, for a list of that many entries
ResponseRejected(status, entries) == status # 200 \/ entries = 0

LlmParseToc ==
  /\ Runs("llm_toc")
  /\ IF spans = <<>>
     THEN /\ error' = E_NO_SPANS
          /\ job_status' = SetErrorStatus(job_status)
          /\ Logged(SetErrorLog)
          /\ UNCHANGED <<toc_parsed, ext>>
     ELSE IF ValidSpans(spans) = <<>>
     THEN \* no span passes the filter, so blocks stays empty
          /\ error' = E_NO_BLOCKS
          /\ job_status' = SetErrorStatus(job_status)
          /\ Logged(SetErrorLog)
          /\ UNCHANGED <<toc_parsed, ext>>
     ELSE \E outcome \in {"raise", "badjson", "ok"} :
            IF outcome # "ok"
            THEN \* gpt5_chat raised, or json.loads rejected its result
                 /\ error' = (IF outcome = "raise" THEN E_LLM ELSE E_LLM_JSON)
                 /\ job_status' = SetErrorStatus(job_status)
                 /\ Logged(SetErrorLog)
                 /\ UNCHANGED toc_parsed
                 /\ ext' = [ext EXCEPT !.llm_reqs = @ + 1,
                                       !.blocks = Blocks(spans),
                                       !.outline = [outcome |-> outcome,
                                                    status |-> 0, entries |-> 0]]
            ELSE \E status \in {200, 404, 500}, n \in 0..MaxItems :
                   /\ IF ResponseRejected(status, n)
                      THEN \* the entries of such a response are not read
                           /\ error' = E_LLM_MESSAGE
                           /\ job_status' = SetErrorStatus(job_status)
                           /\ Logged(SetErrorLog)
                           /\ UNCHANGED toc_parsed
                      ELSE /\ \E parsed \in {l \in ParsedLists : Len(l) = n} :
                                toc_parsed' = [present |-> TRUE, status |-> status,
                                               parsed |-> parsed]
                           /\ job_status' = PARSED
                           /\ Logged(StatusLog(PARSED))
                           /\ UNCHANGED error
                   /\ ext' = [ext EXCEPT !.llm_reqs = @ + 1,
                                         !.blocks = Blocks(spans),
                                         !.outline = [outcome |-> "ok",
                                                      status |-> status,
                                                      entries |-> n]]
  /\ pc' = CondAfterParse(toc_parsed')
  /\ UNCHANGED <<doc_id, listing, response, window_size, has_total, total_pages, window_start, toc_pages,
                 spans, sections, csv_path, fs>>

(***************************************************************************)
(* node_calc_page_end                                                      *)
(***************************************************************************)
\* an insertion that puts an entry before the entries of the same start
RECURSIVE InsertByStartUnstable(_, _)
InsertByStartUnstable(sorted, item) ==
  IF sorted = <<>> THEN <<item>>
  ELSE IF sorted[Len(sorted)].page_start < item.page_start
       THEN Append(sorted, item)
       ELSE Append(InsertByStartUnstable(SubSeq(sorted, 1, Len(sorted) - 1), item),
                   sorted[Len(sorted)])

\* sorted(items, key=lambda x: int(x.get("page_start", 0))): a stable sort
RECURSIVE InsertByStart(_, _)
InsertByStart(sorted, item) ==
  IF sorted = <<>> THEN <<item>>
  ELSE IF sorted[Len(sorted)].page_start <= item.page_start
       THEN Append(sorted, item)
       ELSE Append(InsertByStart(SubSeq(sorted, 1, Len(sorted) - 1), item),
                   sorted[Len(sorted)])

RECURSIVE SortByStart(_)
SortByStart(items) ==
  IF items = <<>> THEN <<>>
  ELSE InsertByStart(SortByStart(SubSeq(items, 1, Len(items) - 1)),
                     items[Len(items)])

\* a loop without the max(0, ...)
ResolveEndsUnclamped(sorted, total) ==
  [i \in 1..Len(sorted) |->
     [sorted[i] EXCEPT !.page_end =
        IF i + 1 <= Len(sorted)
        THEN sorted[i + 1].page_start - 1
        ELSE total - 1]]

\* a loop that ends an entry on the page the next one starts on
ResolveEndsOverlap(sorted, total) ==
  [i \in 1..Len(sorted) |->
     [sorted[i] EXCEPT !.page_end =
        IF i + 1 <= Len(sorted)
        THEN Max(0, sorted[i + 1].page_start)
        ELSE Max(0, total - 1)]]

\* the loop that sets page_end on the sorted entries
ResolveEnds(sorted, total) ==
  [i \in 1..Len(sorted) |->
     [sorted[i] EXCEPT !.page_end =
        IF i + 1 <= Len(sorted)
        THEN Max(0, sorted[i + 1].page_start - 1)
        ELSE Max(0, total - 1)]]

\* a sort key that never raises
SortRaisesNever(items) == FALSE

\* int(x.get("page_start", 0)) raises for some entry
SortRaises(items) == \E i \in DOMAIN items : items[i].kind # "ok"

CalcPageEnd ==
  /\ Runs("calc_end")
  /\ LET items == IF toc_parsed.present THEN toc_parsed.parsed ELSE <<>>
         total == IF has_total THEN total_pages ELSE 0
     IN IF items = <<>>
        THEN /\ error' = E_NO_ITEMS
             /\ job_status' = SetErrorStatus(job_status)
             /\ Logged(SetErrorLog)
             /\ UNCHANGED toc_parsed
        ELSE IF SortRaises(items)
        THEN /\ error' = E_CALC
             /\ job_status' = SetErrorStatus(job_status)
             /\ Logged(SetErrorLog)
             /\ UNCHANGED toc_parsed
        ELSE /\ toc_parsed' =
                  [toc_parsed EXCEPT !.parsed = ResolveEnds(SortByStart(items), total)]
             /\ UNCHANGED <<error, job_status>>
             /\ Logged(AddLog)
  /\ pc' = "extract_ranges"
  /\ UNCHANGED <<doc_id, listing, response, window_size, has_total, total_pages, window_start, toc_pages,
                 spans, sections, csv_path, ext, fs>>

(***************************************************************************)
(* node_extract_ranges                                                     *)
(***************************************************************************)
\* list(range(start, end + 1)) if end >= start else [start]
SectionPages(ps, pe) == IF pe >= ps THEN ps..pe ELSE {ps}

\* a value that `or` passes over: None, an absent key, the empty string
Truthy(v) == v.t = "str" /\ v.s # <<>>

\* the word of the synthetic title, as one character
SectionWord == <<"s">>

\* f"<word> {i}"
SyntheticTitle(i) == SectionWord \o <<" ">> \o Digits(i)

\* f"<word> {i} (<failure note>)", the note as one character
FailedTitle(i) == SyntheticTitle(i) \o <<" ", "(", "x", ")">>

\* a title that prefers the outermost level
TitleOuterFirst(l, i) ==
  IF Truthy(l.level_1) THEN l.level_1.s
  ELSE IF Truthy(l.level_2) THEN l.level_2.s
  ELSE IF Truthy(l.level_3) THEN l.level_3.s
  ELSE IF Truthy(l.kwan) THEN l.kwan.s
  ELSE IF Truthy(l.jo) THEN l.jo.s
  ELSE SyntheticTitle(i)

\* item.get("jo") or item.get("kwan") or ... or f"<word> {i}"
Title(l, i) ==
  IF Truthy(l.jo) THEN l.jo.s
  ELSE IF Truthy(l.kwan) THEN l.kwan.s
  ELSE IF Truthy(l.level_3) THEN l.level_3.s
  ELSE IF Truthy(l.level_2) THEN l.level_2.s
  ELSE IF Truthy(l.level_1) THEN l.level_1.s
  ELSE SyntheticTitle(i)

\* match.size > max(3, int(len(title) * 0.8))
FuzzyAccepted(size, title) == size > Max(3, (8 * Len(title)) \div 10)

\* extract_content_after_title(full_content, title)
ExtractContentAfterTitle(full_content, title) ==
  IF title = <<>> \/ full_content = <<>> THEN full_content
  ELSE LET pos == Find(full_content, title)
           match == FindLongestMatch(Lower(title), Lower(full_content))
       IN IF pos # -1 THEN Strip(From(full_content, pos + Len(title)))
          ELSE IF FuzzyAccepted(match.size, title)
          THEN Strip(From(full_content, match.b + match.size))
          ELSE full_content

\* pure_content.count("\n\n") + 1 if pure_content.strip() else 0
ParaCount(text) ==
  IF Strip(text) # <<>> THEN Count(text, <<"\n", "\n">>) + 1 ELSE 0

\* len(pure_content.strip())
CharCount(text) == Len(Strip(text))

\* the table word, and the figure words, each as one character
HasTable(text) == "T" \in ToSet(text)

HasFigure(text) == ToSet(text) \cap {"F", "G"} # {}

\* section = {**item, **meta} with "section_id": i, for the text the
\* content request returned
FullSection(i, item, plain) ==
  LET Meta(title, pure_content) ==
        [start_ok |-> TRUE, page_start |-> item.page_start,
         page_end |-> item.page_end,
         pages |-> SectionPages(item.page_start, item.page_end),
         has_id |-> TRUE, section_id |-> i, label |-> item.label,
         title |-> title, text |-> pure_content,
         para_count |-> ParaCount(pure_content),
         char_count |-> CharCount(pure_content),
         has_table |-> HasTable(pure_content),
         has_figure |-> HasFigure(pure_content), has_error |-> FALSE]
      titled == {<<title, ExtractContentAfterTitle(plain, title)>> :
                   title \in {Title(item.label, i)}}
  IN CHOOSE section \in {Meta(p[1], p[2]) : p \in titled} : TRUE

\* the except branch: {**item, "text": "", "title": ..., "error": str(e)};
\* has_id tells that section_id and the other keys of meta are absent
DegradedSection(i, item) ==
  [start_ok |-> item.kind = "ok", page_start |-> item.page_start,
   page_end |-> item.page_end, pages |-> {},
   has_id |-> FALSE, section_id |-> 0, label |-> item.label,
   title |-> FailedTitle(i), text |-> <<>>,
   para_count |-> 0, char_count |-> 0, has_table |-> FALSE,
   has_figure |-> FALSE, has_error |-> TRUE]

\* the entries before the first one that is no JSON object are processed
Processed(items) ==
  {i \in DOMAIN items : \A j \in 1..i : items[j].kind # "notdict"}

\* state.get("toc_parsed", {}).get("parsed", [])
ParsedItems == IF toc_parsed.present THEN toc_parsed.parsed ELSE <<>>

\* the entries a content request is issued for
Fetched(items) == {i \in Processed(items) : items[i].kind = "ok"}

\* what a content request can end with: it raises, or returns a text
ReadRaised == [ok |-> FALSE, plain |-> <<>>]

ReadOk(text) == [ok |-> TRUE, plain |-> text]

\* one visit of the node when the content request for entry i ends as
\* results[i] says
ExtractVisitWith(results) ==
  /\ Runs("extract_ranges")
  /\ LET items == ParsedItems
     IN IF items = <<>>
        THEN /\ error' = E_NO_PARSED
             /\ job_status' = SetErrorStatus(job_status)
             /\ Logged(SetErrorLog)
             /\ UNCHANGED <<sections, ext>>
        ELSE /\ IF Processed(items) # DOMAIN items
                THEN \* {**item, ...} raises in the except branch
                     /\ error' = E_RANGES
                     /\ job_status' = SetErrorStatus(job_status)
                     /\ Logged(SetErrorLog)
                     /\ UNCHANGED sections
                ELSE /\ sections' =
                          [i \in DOMAIN items |->
                             IF i \in Fetched(items) /\ results[i].ok
                             THEN FullSection(i, items[i], results[i].plain)
                             ELSE DegradedSection(i, items[i])]
                     /\ job_status' = EXTRACTED
                     /\ Logged(StatusLog(EXTRACTED))
                     /\ UNCHANGED error
             /\ ext' = [ext EXCEPT !.read_reqs = @ + Cardinality(Fetched(items))]
  /\ pc' = "write_csv"
  /\ UNCHANGED <<doc_id, listing, response, window_size, has_total, total_pages, window_start, toc_pages,
                 spans, toc_parsed, csv_path, fs>>

\* the text a content request returns in a run: the section's title, a
\* blank, and a body
Body == <<"a", " ", "x">>

\* in a run every content request raises or returns; which of the two
\* shows in the state only when the loop gets to its end
ExtractRanges ==
  /\ pc = "extract_ranges"
  /\ \E failed \in SUBSET (IF Processed(ParsedItems) = DOMAIN ParsedItems
                           THEN Fetched(ParsedItems) ELSE {}) :
       ExtractVisitWith([i \in DOMAIN ParsedItems |->
                           IF i \in failed THEN ReadRaised ELSE ReadOk(Body)])

(***************************************************************************)
(* node_write_csv                                                          *)
(***************************************************************************)
\* section.get("section_id", 0) names the section's two files
FileKey(section) == IF section.has_id THEN section.section_id ELSE 0

\* paths below settings.OUTPUT_DIR: a path is the sequence of its names, a
\* name the sequence of its pieces
BaseDir(doc) == <<doc>>

\* os.path.join(base_dir, f"section_{section_id}.txt")
ExtractPath(doc, key) == <<doc, <<"section_">> \o Digits(key) \o <<".txt">>>>

\* os.path.join(base_dir, f"section_{section_id}.json")
JsonPath(doc, key) == <<doc, <<"section_">> \o Digits(key) \o <<".json">>>>

\* os.path.join(settings.OUTPUT_DIR, f"{doc_id}_parsed.csv")
CsvPath(doc) == <<doc \o <<"_parsed.csv">>>>

\* os.path.relpath(path, settings.OUTPUT_DIR), as text
RelPath(p) == IF Len(p) = 1 THEN p[1] ELSE p[1] \o <<"/">> \o p[2]

\* section.get(key, "") for a naming key
LabelOrEmpty(v) == IF v.t = "absent" THEN Str(<<>>) ELSE v

\* the row of one section, as handed to the csv writer
IndexRow(doc, section) ==
  [doc_id |-> doc,
   section_id |-> FileKey(section),
   level_1 |-> LabelOrEmpty(section.label.level_1),
   level_2 |-> LabelOrEmpty(section.label.level_2),
   level_3 |-> LabelOrEmpty(section.label.level_3),
   kwan |-> LabelOrEmpty(section.label.kwan),
   jo |-> LabelOrEmpty(section.label.jo),
   page_start |-> section.page_start,
   page_end |-> section.page_end,
   title |-> Str(section.title),
   para_count |-> section.para_count,
   char_count |-> section.char_count,
   has_table |-> section.has_table,
   has_figure |-> section.has_figure,
   extract_path |-> RelPath(ExtractPath(doc, FileKey(section))),
   json_path |-> RelPath(JsonPath(doc, FileKey(section)))]

\* csv.writer writes None as the empty field and a str as it is
FieldOf(v) == IF v.t = "null" THEN <<>> ELSE v.s

\* str(True), str(False)
BoolText(b) == IF b THEN <<"T", "r", "u", "e">> ELSE <<"F", "a", "l", "s", "e">>

\* the line csv.writer writes for a row: the text of every field
CsvLine(row) ==
  [doc_id |-> row.doc_id,
   section_id |-> Digits(row.section_id),
   level_1 |-> FieldOf(row.level_1),
   level_2 |-> FieldOf(row.level_2),
   level_3 |-> FieldOf(row.level_3),
   kwan |-> FieldOf(row.kwan),
   jo |-> FieldOf(row.jo),
   page_start |-> Digits(row.page_start),
   page_end |-> Digits(row.page_end),
   title |-> FieldOf(row.title),
   para_count |-> Digits(row.para_count),
   char_count |-> Digits(row.char_count),
   has_table |-> BoolText(row.has_table),
   has_figure |-> BoolText(row.has_figure),
   extract_path |-> row.extract_path,
   json_path |-> row.json_path]

\* an index that is opened for appending
IndexAppended(old, lines) == old \o lines

\* open(csv_path, "w"): the lines written replace what the file held
IndexContent(old, lines) == lines

\* a row that cannot be built for a section whose extraction failed
RowLimitDegraded(secs) ==
  LET bad == {k \in DOMAIN secs : ~secs[k].start_ok \/ secs[k].has_error}
  IN IF bad = {} THEN 2 * Len(secs) + 1
     ELSE 2 * (CHOOSE k \in bad : \A j \in bad : k <= j)

\* file writes the loop attempts before building a row raises: the row of
\* section k is built after its two files were written
RowLimit(secs) ==
  LET bad == {k \in DOMAIN secs : ~secs[k].start_ok}
  IN IF bad = {} THEN 2 * Len(secs) + 1
     ELSE 2 * (CHOOSE k \in bad : \A j \in bad : k <= j)

\* open(path, "w") and a write: the file holds the content written last
Put(files, p, c) == (p :> c) @@ files

\* the files after the first w file writes of the loop succeeded: write
\* 2k - 1 is the text of section k, write 2k its JSON record
RECURSIVE WriteFiles(_, _, _, _)
WriteFiles(files, doc, secs, w) ==
  IF w = 0 THEN files
  ELSE LET before == WriteFiles(files, doc, secs, w - 1)
           k == (w + 1) \div 2
       IN IF w % 2 = 1
          THEN Put(before, ExtractPath(doc, FileKey(secs[k])), secs[k].text)
          ELSE Put(before, JsonPath(doc, FileKey(secs[k])), secs[k])

\* the directory after os.makedirs and the first w file writes of the loop
Written(dir, doc, secs, w) ==
  [dirs |-> dir.dirs \cup {BaseDir(doc)},
   files |-> WriteFiles(dir.files, doc, secs, w)]

\* the directory after every file of the sections and then the index, one
\* line per section, were written
Persisted(dir, doc, secs) ==
  [Written(dir, doc, secs, 2 * Len(secs)) EXCEPT
     !.files = Put(@, CsvPath(doc),
                   IndexContent(IF CsvPath(doc) \in DOMAIN @
                                THEN @[CsvPath(doc)] ELSE <<>>,
                                [k \in DOMAIN secs |->
                                   CsvLine(IndexRow(doc, secs[k]))]))]

\* a write_csv without the guard on an empty section list
NothingToSaveNever(secs) == FALSE

\* if not sections
NothingToSave(secs) == secs = <<>>

\* a csv_path that is recorded before the files are written
PathAfterWriteEager(current, doc, done) == CsvPath(doc)

\* state["csv_path"] = csv_path, reached when every write succeeded
PathAfterWrite(current, doc, done) == IF done THEN CsvPath(doc) ELSE current

\* os.makedirs(base_dir, exist_ok=True) raises: the path is a file
DirBlocked(dir, doc) == BaseDir(doc) \in DOMAIN dir.files

\* open(csv_path, "w") raises: the path is a directory
IndexBlocked(dir, doc) == CsvPath(doc) \in dir.dirs

\* a persisting part that writes the index before the files of the sections
PersistIndexFirst(dir, doc, secs, f) ==
  LET w == Min(f, RowLimit(secs))
      done == /\ w = 2 * Len(secs) + 1
              /\ ~DirBlocked(dir, doc)
              /\ ~IndexBlocked(dir, doc)
  IN [done |-> done,
      dir |-> IF done THEN Persisted(dir, doc, secs)
              ELSE IF f = -1 \/ DirBlocked(dir, doc) THEN dir
              ELSE IF w = 0 \/ IndexBlocked(dir, doc)
              THEN Written(dir, doc, secs, 0)
              ELSE [Written(dir, doc, secs, w - 1) EXCEPT
                      !.files = Put(@, CsvPath(doc), <<>>)]]

\* the persisting part of write_csv on the directory dir when the
\* environment lets the first f writes succeed (-1: os.makedirs raises):
\* whether every write succeeded, and the directory it leaves
Persist(dir, doc, secs, f) ==
  LET w == Min(f, RowLimit(secs))
      done == /\ w = 2 * Len(secs) + 1
              /\ ~DirBlocked(dir, doc)
              /\ ~IndexBlocked(dir, doc)
  IN [done |-> done,
      dir |-> IF done THEN Persisted(dir, doc, secs)
              ELSE IF f = -1 \/ DirBlocked(dir, doc) THEN dir
              ELSE Written(dir, doc, secs, Min(w, 2 * Len(secs)))]

WriteCsv ==
  /\ Runs("write_csv")
  /\ IF NothingToSave(sections)
     THEN /\ error' = E_NO_SECTIONS
          /\ job_status' = SetErrorStatus(job_status)
          /\ Logged(SetErrorLog)
          /\ UNCHANGED <<csv_path, fs, ext>>
     ELSE \* os.makedirs raises (f = -1), or the first f writes succeed
          \* and the next one, if the loop gets to it, raises
          \E f \in -1..(2 * Len(sections) + 1) :
            \E out \in {Persist(fs, doc_id, sections, f)} :
               /\ csv_path' = PathAfterWrite(csv_path, doc_id, out.done)
               /\ fs' = out.dir
               /\ IF out.done
                  THEN /\ job_status' = COMPLETED
                       /\ Logged(StatusLog(COMPLETED))
                       /\ UNCHANGED <<error, ext>>
                  ELSE /\ error' = E_CSV
                       /\ job_status' = SetErrorStatus(job_status)
                       /\ Logged(SetErrorLog)
                       /\ ext' = [ext EXCEPT !.write_fails =
                                    IF f < RowLimit(sections) THEN @ + 1 ELSE @]
  /\ pc' = END
  /\ UNCHANGED <<doc_id, listing, response, window_size, has_total, total_pages, window_start, toc_pages,
                 spans, toc_parsed, sections>>

(***************************************************************************)
(* node_fail                                                               *)
(***************************************************************************)
Fail ==
  /\ Runs("fail")
  /\ job_status' = NodeFailStatus(job_status)
  /\ Logged(StatusLog(FAILED))
  /\ error' = NodeFailError(error)
  /\ pc' = END
  /\ UNCHANGED <<doc_id, listing, response, window_size, has_total, total_pages, window_start, toc_pages,
                 spans, toc_parsed, sections, csv_path, ext, fs>>

(***************************************************************************)
(* run_parsing_flow: app.ainvoke raises GraphRecursionError when the graph *)
(* has not reached END after RecursionLimit supersteps; the except branch  *)
(* returns a fresh initial state marked failed                             *)
(***************************************************************************)
EngineAbort ==
  /\ pc # END
  /\ steps >= RecursionLimit
  /\ pc' = END
  /\ window_size' = DefaultWindowSize
  /\ has_total' = FALSE
  /\ total_pages' = 0
  /\ window_start' = 0
  /\ toc_pages' = <<>>
  /\ spans' = <<>>
  /\ toc_parsed' = NoParsed
  /\ sections' = <<>>
  /\ csv_path' = NoPath
  /\ job_status' = FAILED
  /\ logs' = NoLogs
  /\ updated_at' = Now
  /\ error' = E_ENGINE
  /\ UNCHANGED <<steps, doc_id, listing, response, ext, fs>>

Next ==
  \/ DocInfo
  \/ DetectToc
  \/ ExtractSpans
  \/ LlmParseToc
  \/ CalcPageEnd
  \/ ExtractRanges
  \/ WriteCsv
  \/ Fail
  \/ EngineAbort

Spec == Init /\ [][Next]_vars

\* the engine keeps running supersteps until the graph reaches END
FairSpec == Spec /\ WF_vars(Next)

Terminated == pc = END

\* the index of the run's document was written
IndexWritten == CsvPath(doc_id) \in DOMAIN fs.files

\* the lines of that index
IndexLines == IF IndexWritten THEN fs.files[CsvPath(doc_id)] ELSE <<>>

(***************************************************************************)
(* node_detect_toc_window examined one visit at a time: the state at the   *)
(* node's entry is any state the detection loop can be in, and the         *)
(* detection call ends the way `response` says                             *)
(***************************************************************************)
DetectInit ==
  /\ pc = "detect_toc"
  /\ steps = 0
  /\ doc_id = DocId
  /\ listing = NoListing
  /\ window_size \in 1..MaxWindow
  /\ has_total = TRUE
  /\ total_pages \in 1..MaxPages
  /\ window_start \in {c \in 0..(total_pages - 1) : c % window_size = 0}
  /\ toc_pages \in {SortedSeq(S) : S \in SUBSET DetectPool}
  /\ window_start = 0 => toc_pages = <<>>
  /\ spans = <<>>
  /\ toc_parsed = NoParsed
  /\ sections = <<>>
  /\ csv_path = NoPath
  /\ \E failedBefore \in BOOLEAN :
       /\ job_status = (IF failedBefore THEN FAILED ELSE RUNNING)
       /\ error = (IF failedBefore THEN E_DETECT ELSE NoError)
       /\ logs = LogsAt("detect_toc")
                   + (IF failedBefore THEN Len(SetErrorLog) ELSE 0)
  /\ updated_at = 0
  /\ ext = [NoRequests EXCEPT !.counted = TRUE, !.doc_pages = total_pages,
                              !.hi = window_start]
  /\ fs = EmptyDir
  /\ response \in DetectOutcomes

DetectScripted == DetectVisitWith(response.outcome, response.pages)

DetectSpec == DetectInit /\ [][DetectScripted]_vars

(***************************************************************************)
(* node_llm_parse_toc examined on its own: the node is entered with any    *)
(* span list extract_spans may have stored, or with none                   *)
(***************************************************************************)
\* two spans that share a key and differ in text, spans that differ from
\* them in span_id, in line_id and in page, and a span whose stripped text
\* is too short
SpanPool ==
  {SpanAt(0, 0, 1, 3), SpanAt(0, 0, 1, 6), SpanAt(0, 0, 0, 2),
   SpanAt(0, 1, 0, 4), SpanAt(1, 0, 0, 5), SpanAt(0, 0, 0, 1)}

LlmInit ==
  /\ pc = "llm_toc"
  /\ steps = 0
  /\ doc_id = DocId
  /\ listing = NoListing
  /\ window_size = MaxWindow
  /\ has_total = TRUE
  /\ total_pages = MaxPages
  /\ window_start = total_pages
  /\ toc_pages = <<0>>
  /\ spans \in SeqUpTo(SpanPool, MaxSpans)
  /\ toc_parsed = NoParsed
  /\ sections = <<>>
  /\ csv_path = NoPath
  /\ job_status = (IF spans = <<>> THEN FAILED ELSE DETECTED)
  /\ error = (IF spans = <<>> THEN E_SPANS_EMPTY ELSE NoError)
  /\ logs = (IF spans = <<>>
             THEN Len(StatusLog(RUNNING) \o AddLog \o AddLog \o SetErrorLog)
             ELSE LogsAt("llm_toc"))
  /\ updated_at = 0
  /\ ext = [NoRequests EXCEPT !.counted = TRUE, !.doc_pages = total_pages,
                              !.nreq = 1, !.hi = total_pages, !.span_reqs = 1]
  /\ fs = EmptyDir
  /\ response = NoResponse

LlmSpec == LlmInit /\ [][LlmParseToc]_vars

(***************************************************************************)
(* node_calc_page_end examined on its own: the node is called on a state   *)
(* with any entry list and any total_pages, and called once more on the    *)
(* state it returned                                                       *)
(***************************************************************************)
\* entries with equal and with different starts, with and without an end
\* page in the response, and an entry whose page_start is no integer
CalcPool ==
  {Entry(0, 0, "a"), Entry(1, 0, "b"), Entry(1, 7, "c"), Entry(2, 3, "d"),
   BadStartItem}

\* the entry list [15, 30, 45], met with a 60-page document
ThreeChapters == <<Entry(15, 0, "a"), Entry(30, 0, "b"), Entry(45, 0, "c")>>

CalcLists == SeqUpTo(CalcPool, MaxEntries) \cup {ThreeChapters}

CalcTotals == (-1..MaxTotal) \cup {60}

CalcInit ==
  /\ pc = "calc_end"
  /\ steps = 0
  /\ doc_id = DocId
  /\ listing = NoListing
  /\ window_size = MaxWindow
  /\ has_total \in BOOLEAN
  /\ total_pages \in (IF has_total THEN CalcTotals ELSE {0})
  /\ window_start = 0
  /\ toc_pages = <<0>>
  /\ spans = <<Span(0, 0, 3)>>
  /\ toc_parsed \in {NoParsed} \cup
        {[present |-> TRUE, status |-> 200, parsed |-> l] : l \in CalcLists}
  /\ sections = <<>>
  /\ csv_path = NoPath
  /\ job_status = PARSED
  /\ error = NoError
  /\ logs = LogsAt(pc)
  /\ updated_at = 0
  /\ ext = NoRequests
  /\ fs = EmptyDir
  /\ response = NoResponse

\* the node is called again on the state it returned
CalcAgain ==
  /\ pc = "extract_ranges"
  /\ steps = 1
  /\ pc' = "calc_end"
  /\ UNCHANGED <<steps, stateVars, ext, fs, response, listing>>

CalcNext ==
  \/ CalcPageEnd
  \/ CalcAgain

CalcSpec == CalcInit /\ [][CalcNext]_vars

(***************************************************************************)
(* node_extract_ranges examined on its own: the node is entered with any   *)
(* resolved entry list, and the content request for entry i ends the way   *)
(* response.reads[i] says                                                  *)
(***************************************************************************)
\* a letter in both cases, and a blank
Chars == {"a", "A", " "}

\* a page text of 200 characters: a blank, "aaaa", then " a" to the end
LongPage ==
  [k \in 1..200 |-> IF k \in 2..5 \/ (k >= 7 /\ k % 2 = 1) THEN "a" ELSE " "]

\* a title of six characters of which the page text holds the first five in
\* lower case; a title the page text holds in another case, followed by a
\* body; a title the long page text holds in lower case
LongPairs ==
  {[title |-> <<"a", "a", "a", "a", "a", "A">>,
    plain |-> <<" ", "a", "a", "a", "a", "a", " ", "a", " ">>],
   [title |-> <<"A", "a", " ", "a", "a">>,
    plain |-> <<"a", "a", " ", "a", "a", " ", "T", "\n", "\n", "G", " ">>],
   [title |-> <<"A", "a", "a", "a">>, plain |-> LongPage]}

\* the title in level_1, met with a page text
TitleAndText ==
  {[title |-> t, plain |-> c] : t \in SeqUpTo(Chars, MaxTitle),
                                c \in SeqUpTo(Chars, MaxContent)}

\* what a naming key may hold; the string says which key it is
KeyValues(c) == {KeyAbsent, JsonNull, Str(<<>>), Str(<<c>>)}

LabelChoices ==
  {Labels(jo, kwan, l3, l2, l1) :
     jo \in KeyValues("j"), kwan \in KeyValues("k"), l3 \in KeyValues("3"),
     l2 \in KeyValues("2"), l1 \in KeyValues("1")}

\* one entry named by level_1 and the text of its pages
TitledInputs(pairs) ==
  {[items |-> <<EntryWith(0, 0, OnlyLevel1(p.title))>>,
    reads |-> <<ReadOk(p.plain)>>] : p \in pairs}

\* one entry with any naming keys
LabelInputs ==
  {[items |-> <<EntryWith(0, 0, l)>>, reads |-> <<ReadOk(Body)>>] :
     l \in LabelChoices}

\* two entries, the second with level_1 or no name at all, where the first
\* content request may fail
PairInputs ==
  {[items |-> <<Entry(0, 0, "a"), EntryWith(1, 1, l)>>,
    reads |-> <<r, ReadOk(Body)>>] :
     l \in {OnlyLevel1(<<"A">>), OnlyLevel1(<<>>)},
     r \in {ReadRaised, ReadOk(Body)}}

\* the parsed entries and the outcomes of the content requests are in
ExtractInput(in) ==
  /\ toc_parsed = [present |-> TRUE, status |-> 200, parsed |-> in.items]
  /\ response = [reads |-> in.reads]

ExtractInit ==
  /\ pc = "extract_ranges"
  /\ steps = 0
  /\ doc_id = DocId
  /\ listing = NoListing
  /\ window_size = MaxWindow
  /\ has_total = TRUE
  /\ total_pages = MaxPages
  /\ window_start = total_pages
  /\ toc_pages = <<0>>
  /\ spans = <<Span(0, 0, 3)>>
  /\ \/ \E in \in TitledInputs(TitleAndText) : ExtractInput(in)
     \/ \E in \in TitledInputs(LongPairs) : ExtractInput(in)
     \/ \E in \in LabelInputs : ExtractInput(in)
     \/ \E in \in PairInputs : ExtractInput(in)
  /\ sections = <<>>
  /\ csv_path = NoPath
  /\ job_status = PARSED
  /\ error = NoError
  /\ logs = LogsAt(pc)
  /\ updated_at = 0
  /\ ext = NoRequests
  /\ fs = EmptyDir

ExtractScripted == ExtractVisitWith(response.reads)

ExtractSpec == ExtractInit /\ [][ExtractScripted]_vars

(***************************************************************************)
(* Properties                                                              *)
(***************************************************************************)

\* C1: a run started with window_size >= 1 whose external calls all return
\* eventually terminates, and then job_status is completed or failed.
C1_Terminates == <>(pc = END /\ job_status \in {COMPLETED, FAILED})

\* a run has returned after detection calls failed
C1_Witness == pc = END /\ ext.nfail >= 1 /\ job_status \in {COMPLETED, FAILED}

\* C2: once a stage has recorded an error through set_error, the only node
\* that still runs is fail.
C2_NoStageAfterError == error # NoError => pc \in {"fail", END}

\* C3: after a failed detection call no further detection request is issued.
C3_NoRetry == [][ext.nfail >= 1 => ext'.nreq = ext.nreq]_vars

\* every window was visited, every response was valid, none reported a page
NoTocRun ==
  /\ has_total
  /\ window_start >= total_pages
  /\ ext.nfail = 0
  /\ toc_pages = <<>>

\* C4: a run whose windows were all scanned with valid responses and no TOC
\* page ends failed with the TOC-not-found reason, and issued no span,
\* outline or content request and wrote no artifact.
C4_NoTocFailsWithReason ==
  (pc = END /\ NoTocRun) =>
    /\ job_status = FAILED
    /\ error = E_NO_TOC_PAGES
    /\ ext.span_reqs = 0 /\ ext.llm_reqs = 0 /\ ext.read_reqs = 0
    /\ fs = EmptyDir

\* C5: a run that ends failed has an error message recorded.
C5_FailedHasError == (pc = END /\ job_status = FAILED) => error # NoError

\* C6: a run that ends completed has csv_path recorded, a non-empty list of
\* sections, and wrote the index with one row per section.
C6_CompletedHasIndex ==
  (pc = END /\ job_status = COMPLETED) =>
    /\ csv_path # NoPath
    /\ sections # <<>>
    /\ IndexWritten
    /\ Len(IndexLines) = Len(sections)

\* a run has ended completed
C6_Witness == pc = END /\ job_status = COMPLETED /\ Len(sections) = MaxItems

\* C7: once job_status is failed or completed, no later step changes
\* job_status, error, sections or csv_path.
C7_TerminalAbsorbing ==
  [][(job_status \in {FAILED, COMPLETED}) =>
       (/\ job_status' = job_status
        /\ error' = error
        /\ sections' = sections
        /\ csv_path' = csv_path)]_vars

\* C8: when every detection call succeeds, the windows requested start at 0,
\* follow one another without gap or overlap, and the last one ends at the
\* document's page count.
C8_WindowsCoverDocument ==
  (pc = END /\ ext.counted /\ ext.doc_pages >= 0 /\ ext.nfail = 0) =>
    /\ ~ext.gap
    /\ ~ext.overlap
    /\ ext.hi = ext.doc_pages

\* a detect_toc visit with total_pages known
DetectVisit == pc = "detect_toc" /\ has_total /\ steps' = steps + 1

C10_TocPagesSortedUnique ==
  \A i, j \in DOMAIN toc_pages : i < j => toc_pages[i] < toc_pages[j]

\* pages found in several windows were merged
C10_Witness == Len(toc_pages) >= 2 /\ ext.nreq >= 2

\* C11: after a successful detect_toc visit toc_pages holds exactly the
\* pages it held before together with the pages the response reported; a
\* valid response that reports no page leaves toc_pages, error and
\* job_status as they were.
C11_MergeIsUnion ==
  [][(pc = "detect_toc" /\ response.outcome = "ok" /\ steps' = steps + 1) =>
       (/\ ToSet(toc_pages') = ToSet(toc_pages) \cup ToSet(response.pages)
        /\ \A p \in ToSet(toc_pages) : p \in ToSet(toc_pages')
        /\ (response.pages = <<>> =>
              (toc_pages' = toc_pages /\ error' = error
               /\ job_status' = job_status)))]_vars

\* a visit kept a page found before and added the one the response reported
C11_Witness ==
  /\ steps = 1
  /\ response = [outcome |-> "ok", pages |-> <<1>>]
  /\ toc_pages = <<0, 1>>
  /\ ext.nreq = 1

\* the page-count lookup raised, or reported a page count <= 0
DocInfoFailed == ~ext.counted \/ ext.doc_pages <= 0

\* C12: when the page-count lookup fails or reports a page count <= 0, the
\* run ends failed, the error recorded is the doc-info error, and no
\* detection request was issued.
C12_DocInfoFailureEndsRun ==
  (pc = END /\ DocInfoFailed) =>
    /\ job_status = FAILED
    /\ error \in {E_INVALID_DOC, E_DOC_INFO}
    /\ ext.nreq = 0

\* the outline response was received, parsed, and has status 200 and at
\* least one entry
OutlineAccepted ==
  /\ ext.outline.outcome = "ok"
  /\ ext.outline.status = 200
  /\ ext.outline.entries >= 1

\* an outline response was received and is not an accepted one: another
\* status, no entry, or a text that does not parse
OutlineRefused == ext.outline.outcome \in {"ok", "badjson"} /\ ~OutlineAccepted

\* C13: after the outline stage the run goes on to range calculation if and
\* only if the response has status 200 and at least one entry; with any
\* other response the run ends failed and the error recorded is the message
\* the outline stage reported.
C13_AdvanceIffAccepted ==
  /\ (pc = "calc_end" => OutlineAccepted)
  /\ ((pc = "fail" /\ ext.llm_reqs >= 1) => ~OutlineAccepted)
  /\ ((pc = END /\ OutlineRefused) =>
        /\ job_status = FAILED
        /\ error = (IF ext.outline.outcome = "ok" THEN E_LLM_MESSAGE
                    ELSE E_LLM_JSON))

\* C14: when no span has a stripped text of at least two characters, or
\* there is no span at all, the outline stage fails at once and issues no
\* outline request.
C14_NoBlocksNoRequest ==
  [][(/\ pc = "llm_toc"
      /\ steps' = steps + 1
      /\ \A i \in DOMAIN spans : spans[i].textlen < 2) =>
       (/\ ext'.llm_reqs = ext.llm_reqs
        /\ ext'.outline = NoOutline
        /\ job_status' = FAILED
        /\ error' \in {E_NO_SPANS, E_NO_BLOCKS}
        /\ pc' = "fail")]_vars

\* the stage failed on a list of spans that are all too short
C14_Witness ==
  /\ pc = "fail"
  /\ Len(spans) >= 1
  /\ error = E_NO_BLOCKS
  /\ ext.llm_reqs = 0

\* a precedes b in the order of (page, line_id, span_id)
KeyBefore(a, b) ==
  \/ a.page < b.page
  \/ a.page = b.page /\ a.line_id < b.line_id
  \/ a.page = b.page /\ a.line_id = b.line_id /\ a.span_id < b.span_id

SameKey(a, b) ==
  a.page = b.page /\ a.line_id = b.line_id /\ a.span_id = b.span_id

\* C15: the descriptor lines of an outline request are the lines of exactly
\* the spans whose stripped text has at least two characters, one line per
\* span, ordered ascending by (page, line_id, span_id); spans with equal
\* keys keep the order in which they were received.
C15_BlocksAreSortedValidSpans ==
  [][(pc = "llm_toc" /\ ext'.llm_reqs = ext.llm_reqs + 1) =>
       (LET sent == ext'.blocks
            valid == {i \in DOMAIN spans : spans[i].textlen >= 2}
            \* the valid spans whose line comes before the line of span i
            ahead(i) == {j \in valid :
                           \/ KeyBefore(spans[j], spans[i])
                           \/ (SameKey(spans[j], spans[i]) /\ j < i)}
        IN /\ Len(sent) = Cardinality(valid)
           /\ \A i \in valid :
                LET line == sent[Cardinality(ahead(i)) + 1]
                IN /\ line.page = spans[i].page + 1
                   /\ line.line = spans[i].line_id + 1
                   /\ line.textlen = spans[i].textlen)]_vars

\* a request was sent for three spans received out of order, two of them
\* with the same key
C15_Witness ==
  /\ ext.llm_reqs = 1
  /\ spans = <<SpanAt(1, 0, 0, 5), SpanAt(0, 0, 1, 6), SpanAt(0, 0, 1, 3)>>
  /\ ext.blocks = <<[page |-> 1, line |-> 1, textlen |-> 6],
                    [page |-> 1, line |-> 1, textlen |-> 3],
                    [page |-> 2, line |-> 1, textlen |-> 5]>>

\* range calculation has returned without recording an error
Resolved == pc = "extract_ranges" /\ error = NoError

\* state.get("total_pages", 0)
TotalOrZero == IF has_total THEN total_pages ELSE 0

\* C16: after range calculation the entries are in ascending order of start
\* page, every entry but the last ends at max(0, next start - 1), the last
\* one ends at max(0, total_pages - 1), and no end page is negative.
C16_EndsFromNextStart ==
  Resolved =>
    LET r == toc_parsed.parsed
        n == Len(r)
        atLeastZero(x) == IF x < 0 THEN 0 ELSE x
    IN /\ n >= 1
       /\ \A i \in 1..(n - 1) :
            /\ r[i].page_start <= r[i + 1].page_start
            /\ r[i].page_end = atLeastZero(r[i + 1].page_start - 1)
       /\ r[n].page_end = atLeastZero(TotalOrZero - 1)
       /\ \A i \in 1..n : r[i].page_end >= 0

\* starts 15, 30, 45 in a 60-page document were given ends 29, 44, 59
C16_Witness ==
  /\ Resolved
  /\ total_pages = 60
  /\ [i \in DOMAIN toc_parsed.parsed |-> toc_parsed.parsed[i].page_start]
       = <<15, 30, 45>>
  /\ [i \in DOMAIN toc_parsed.parsed |-> toc_parsed.parsed[i].page_end]
       = <<29, 44, 59>>

\* C17 as stated: after range calculation every entry has
\* end >= start >= 0, each entry starts on the page after the end of the
\* entry before it, and the last entry ends at total_pages - 1 (looked at
\* for documents of at least one page).
C17_ContiguousRanges ==
  (Resolved /\ has_total /\ total_pages >= 1) =>
    LET r == toc_parsed.parsed
        n == Len(r)
    IN /\ \A i \in 1..n : r[i].page_end >= r[i].page_start /\ r[i].page_start >= 0
       /\ \A i \in 1..(n - 1) : r[i + 1].page_start = r[i].page_end + 1
       /\ r[n].page_end = total_pages - 1

\* C17 amended: after range calculation no end page is negative; an entry
\* that starts on page 1 or later starts on the page after the end of the
\* entry before it; end >= start holds for an entry whose successor starts
\* on a later page and for a last entry that starts inside the document;
\* the last entry ends at total_pages - 1 when the document has a page.
C17_ContiguousWhereStartsDiffer ==
  Resolved =>
    LET r == toc_parsed.parsed
        n == Len(r)
    IN /\ \A i \in 1..n : r[i].page_end >= 0
       /\ \A i \in 1..(n - 1) :
            /\ (r[i + 1].page_start >= 1 =>
                  r[i + 1].page_start = r[i].page_end + 1)
            /\ (r[i + 1].page_start > r[i].page_start =>
                  r[i].page_end >= r[i].page_start)
       /\ (r[n].page_start <= TotalOrZero - 1 => r[n].page_end >= r[n].page_start)
       /\ (TotalOrZero >= 1 => r[n].page_end = TotalOrZero - 1)

\* two entries start on page 1 and the first one was given end page 0
C17_Witness ==
  /\ Resolved
  /\ has_total /\ total_pages >= 2
  /\ Len(toc_parsed.parsed) = 2
  /\ toc_parsed.parsed[1].page_start = 1
  /\ toc_parsed.parsed[2].page_start = 1
  /\ toc_parsed.parsed[1].page_end = 0

\* C18: range calculation applied to entries it has already resolved leaves
\* their order and their end pages as they are.
C18_Idempotent ==
  [][(pc = "calc_end" /\ steps = 1 /\ error = NoError /\ steps' = steps + 1) =>
       (toc_parsed' = toc_parsed /\ error' = error
        /\ job_status' = job_status)]_vars

\* the second application has run on entries that share a start page
C18_Witness ==
  /\ Resolved
  /\ steps = 2
  /\ Len(toc_parsed.parsed) >= 2
  /\ toc_parsed.parsed[1].page_start = toc_parsed.parsed[2].page_start
  /\ toc_parsed.parsed[1].label # toc_parsed.parsed[2].label

\* the entry list the node reads
CalcItems == IF toc_parsed.present THEN toc_parsed.parsed ELSE <<>>

\* a call of the node
CalcCall == pc = "calc_end" /\ steps' = steps + 1

\* the call recorded an error and marked the run failed
CalcFailed == error' \in {E_NO_ITEMS, E_CALC} /\ job_status' = FAILED

C20_EndsIgnoreResponse ==
  \A i \in DOMAIN sections :
    /\ sections[i].page_end =
         (IF i < Len(sections)
          THEN Max(0, sections[i + 1].page_start - 1)
          ELSE Max(0, TotalOrZero - 1))
    /\ (sections[i].has_id =>
          sections[i].pages =
            SectionPages(sections[i].page_start, sections[i].page_end))

\* C21: the section records are in outline order and carry the section ids
\* 1..N, id = position, for every section including those whose extraction
\* failed.
C21_SectionIdsDense ==
  \A i \in DOMAIN sections :
    /\ sections[i].has_id
    /\ sections[i].section_id = i
    /\ (toc_parsed.present =>
          (/\ Len(toc_parsed.parsed) = Len(sections)
           /\ sections[i].page_start = toc_parsed.parsed[i].page_start))

\* content requests failed, and nothing else went wrong with any entry
FetchFailedOnly ==
  /\ sections # <<>>
  /\ \E i \in DOMAIN sections : sections[i].has_error
  /\ \A i \in DOMAIN sections : sections[i].start_ok

\* C22: a content request that fails for an entry does not fail the run:
\* there is one section record per outline entry, the record of the failed
\* entry has an error and an empty text, the other records are extracted
\* normally, and unless a file write fails the run ends completed with one
\* index row per section.
C22_FetchFailureKeepsRun ==
  /\ FetchFailedOnly =>
       /\ toc_parsed.present => Len(sections) = Len(toc_parsed.parsed)
       /\ \A i \in DOMAIN sections :
            IF sections[i].has_error
            THEN sections[i].text = <<>>
            ELSE sections[i].has_id /\ sections[i].section_id = i
       /\ pc = "write_csv" => job_status = EXTRACTED
  /\ (pc = END /\ FetchFailedOnly /\ ext.write_fails = 0) =>
       /\ job_status = COMPLETED
       /\ IndexWritten
       /\ Len(IndexLines) = Len(sections)

\* a run ended completed with one section that failed and one that did not
C22_Witness ==
  /\ pc = END
  /\ job_status = COMPLETED
  /\ Len(sections) = 2
  /\ sections[1].has_error /\ sections[1].text = <<>>
  /\ ~sections[2].has_error
  /\ Len(IndexLines) = 2

\* the section whose record has no error key: it was extracted
Extracted(i) == i \in DOMAIN sections /\ ~sections[i].has_error

\* C23: the title of an extracted section is the first non-empty value among
\* jo, kwan, level_3, level_2, level_1 of its entry, in that order, and is
\* the synthetic title of its ordinal only when all five are empty or
\* absent.
C23_TitlePriority ==
  \A i \in DOMAIN sections :
    Extracted(i) =>
      LET l == toc_parsed.parsed[i].label
          order == <<l.jo, l.kwan, l.level_3, l.level_2, l.level_1>>
          named == {k \in 1..5 : order[k].t = "str" /\ Len(order[k].s) >= 1}
      IN IF named = {}
         THEN sections[i].title = SectionWord \o <<" ">> \o Digits(i)
         ELSE \E k \in named :
                /\ \A j \in named : k <= j
                /\ sections[i].title = order[k].s

\* a section was named by level_2 although level_1 is set too: jo is the
\* empty string, kwan is null, level_3 is absent
C23_Witness ==
  /\ Len(sections) = 1
  /\ Extracted(1)
  /\ toc_parsed.parsed[1].label =
       Labels(Str(<<>>), JsonNull, KeyAbsent, Str(<<"2">>), Str(<<"1">>))
  /\ sections[1].title = <<"2">>

\* t occurs in c as a block that ends just before index e (0-based)
BlockEndsAt(c, t, e) ==
  /\ e >= Len(t) /\ e <= Len(c)
  /\ \A k \in 1..Len(t) : c[e - Len(t) + k] = t[k]

\* the length of the longest block the two texts have in common
LongestCommon(a, b) ==
  LET sizes == {k \in 0..Len(a) :
                  \E i \in 0..(Len(a) - k) :
                    \E e \in k..Len(b) : BlockEndsAt(b, SubSeq(a, i + 1, i + k), e)}
  IN CHOOSE k \in sizes : \A m \in sizes : k >= m

\* C24: the text of an extracted section follows three tiers: if the title
\* occurs in the page text, it is the page text after the match, trimmed;
\* otherwise, if the longest block the lower-cased title and the lower-cased
\* page text have in common is longer than max(3, 0.8 x title length), it
\* is the page text after that block, trimmed; otherwise it is the page
\* text unmodified.
C24_ThreeTiers ==
  \A i \in DOMAIN sections :
    Extracted(i) =>
      LET c == response.reads[i].plain
          t == sections[i].title
          result == sections[i].text
          lt == Lower(t)
          lc == Lower(c)
          n == LongestCommon(lt, lc)
      IN IF \E e \in 0..Len(c) : BlockEndsAt(c, t, e)
         THEN \E e \in 0..Len(c) :
                BlockEndsAt(c, t, e) /\ result = Strip(From(c, e))
         ELSE IF n > 3 /\ 10 * n > 8 * Len(t)
         THEN \E e \in n..Len(c), a \in 0..(Len(t) - n) :
                /\ BlockEndsAt(lc, SubSeq(lt, a + 1, a + n), e)
                /\ result = Strip(From(c, e))
         ELSE result = c

\* a write_csv visit that found no sections, or in which makedirs or the
\* write of a file raised
PersistFailed ==
  /\ pc = "write_csv" /\ steps' = steps + 1
  /\ sections = <<>> \/ ext'.write_fails = ext.write_fails + 1

\* C25: when persisting finds an empty section list or cannot write an
\* artifact, the run ends failed with an error recorded, no index path is
\* recorded in the state and the sections in the state are unchanged.
C25_PersistFailure ==
  [][PersistFailed =>
       /\ pc' = END
       /\ job_status' = FAILED
       /\ error' \in {E_NO_SECTIONS, E_CSV}
       /\ csv_path' = NoPath
       /\ sections' = sections]_vars

\* a run that ended where the text of the first section was written and the
\* write of its JSON record raised
C25_Witness ==
  /\ pc = END
  /\ ext.write_fails = 1
  /\ sections # <<>>
  /\ ExtractPath(doc_id, FileKey(sections[1])) \in DOMAIN fs.files
  /\ JsonPath(doc_id, FileKey(sections[1])) \notin DOMAIN fs.files
  /\ job_status = FAILED /\ error = E_CSV /\ csv_path = NoPath

\* the files below the directory of the document
ArtifactsOf(doc) == {p \in DOMAIN fs.files : Len(p) = 2 /\ p[1] = doc}

\* C26: after persisting N sections the directory of the document holds
\* exactly N text files and N JSON records, the pair of section i named by
\* its ordinal i and holding its text and its record, sections whose
\* extraction failed included.
C26_OnePairPerSection ==
  (pc = END /\ job_status = COMPLETED) =>
    /\ \A i \in DOMAIN sections :
         /\ ExtractPath(doc_id, i) \in ArtifactsOf(doc_id)
         /\ JsonPath(doc_id, i) \in ArtifactsOf(doc_id)
         /\ fs.files[ExtractPath(doc_id, i)] = sections[i].text
         /\ fs.files[JsonPath(doc_id, i)] = sections[i]
    /\ Cardinality(ArtifactsOf(doc_id)) = 2 * Len(sections)

(***************************************************************************)
(* Persisting and listing: write_csv on its own for section lists as       *)
(* extract_ranges leaves them, run again for the same document, and        *)
(* get_document_sections reading the index back                            *)
(***************************************************************************)

\* open(csv_file, "r") without newline="": the text layer turns "\r\n" and
\* "\r" inside a field into "\n" before csv.DictReader sees them
RECURSIVE ReadField(_)
ReadField(s) ==
  IF s = <<>> THEN <<>>
  ELSE IF s[1] = "\r"
  THEN <<"\n">> \o ReadField(IF Len(s) > 1 /\ s[2] = "\n"
                             THEN SubSeq(s, 3, Len(s)) ELSE Tail(s))
  ELSE <<s[1]>> \o ReadField(Tail(s))

\* int(s) of a field accepts it
IsInt(s) ==
  /\ s # <<>>
  /\ \A k \in DOMAIN s : \E d \in DOMAIN DigitChars : s[k] = DigitChars[d]

\* int(s) for a field of decimal digits
RECURSIVE ParseInt(_)
ParseInt(s) ==
  IF s = <<>> THEN 0
  ELSE 10 * ParseInt(SubSeq(s, 1, Len(s) - 1))
       + (CHOOSE d \in 0..9 : DigitChars[d + 1] = s[Len(s)])

IntFields == {"section_id", "page_start", "page_end", "para_count", "char_count"}

\* the dict built for one row of the index
ListedSection(row) ==
  [section_id |-> ParseInt(row.section_id),
   level_1 |-> row.level_1,
   level_2 |-> row.level_2,
   level_3 |-> row.level_3,
   kwan |-> row.kwan,
   jo |-> row.jo,
   page_start |-> ParseInt(row.page_start),
   page_end |-> ParseInt(row.page_end),
   title |-> row.title,
   para_count |-> ParseInt(row.para_count),
   char_count |-> ParseInt(row.char_count),
   has_table |-> Lower(row.has_table) = <<"t", "r", "u", "e">>,
   has_figure |-> Lower(row.has_figure) = <<"t", "r", "u", "e">>,
   extract_path |-> row.extract_path,
   json_path |-> row.json_path]

\* the response of get_document_sections(doc) over the files
Listing(files, doc) ==
  IF CsvPath(doc) \notin DOMAIN files
  THEN [status |-> 404, doc_id |-> doc, sections |-> <<>>]
  ELSE LET rows == [k \in DOMAIN files[CsvPath(doc)] |->
                      [c \in DOMAIN files[CsvPath(doc)][k] |->
                         ReadField(files[CsvPath(doc)][k][c])]]
       IN IF \E k \in DOMAIN rows : \E c \in IntFields : ~IsInt(rows[k][c])
          THEN [status |-> 500, doc_id |-> doc, sections |-> <<>>]
          ELSE [status |-> 200, doc_id |-> doc,
                sections |-> [k \in DOMAIN rows |-> ListedSection(rows[k])]]

GetDocumentSections ==
  /\ listing' = Listing(fs.files, doc_id)
  /\ UNCHANGED <<pc, steps, stateVars, ext, fs, response>>

\* run_parsing_flow for the document once more, at the point where it
\* reaches write_csv with the same sections
WriteAgain ==
  /\ pc = END
  /\ response.runs < MaxRuns
  /\ response' = [runs |-> response.runs + 1]
  /\ pc' = "write_csv"
  /\ steps' = 0
  /\ csv_path' = NoPath
  /\ job_status' = EXTRACTED
  /\ error' = NoError
  /\ logs' = LogsAt("write_csv")
  /\ updated_at' = 0
  /\ UNCHANGED <<doc_id, listing, window_size, has_total, total_pages,
                 window_start, toc_pages, spans, toc_parsed, sections, ext, fs>>

\* naming keys of the first entry: jo absent, a string or a string with a
\* carriage return; level_2 absent, null or empty; level_1 a string or null
WriteLabels ==
  {Labels(jo, KeyAbsent, KeyAbsent, l2, l1) :
     jo \in {KeyAbsent, Str(<<"j">>), Str(<<"j", "\r", "o">>)},
     l2 \in {KeyAbsent, JsonNull, Str(<<>>)},
     l1 \in {Str(<<"a">>), JsonNull}}

\* the content requests of the two entries
WriteReads == {ReadRaised, ReadOk(Body), ReadOk(<<"T", "\n", "\n", "G">>)}

\* the sections extract_ranges leaves for the entries and their contents
SectionsFor(items, reads) ==
  [i \in DOMAIN items |->
     IF reads[i].ok THEN FullSection(i, items[i], reads[i].plain)
     ELSE DegradedSection(i, items[i])]

WriteInit ==
  /\ pc = "write_csv"
  /\ steps = 0
  /\ doc_id = DocId
  /\ listing = NoListing
  /\ window_size = MaxWindow
  /\ has_total = TRUE
  /\ total_pages = MaxPages
  /\ window_start = total_pages
  /\ toc_pages = <<0>>
  /\ spans = <<Span(0, 0, 3)>>
  /\ \E l \in WriteLabels, n \in 1..2, r1 \in WriteReads, r2 \in WriteReads :
       LET items == SubSeq(<<EntryWith(0, 0, l), Entry(1, 1, "a")>>, 1, n)
       IN /\ toc_parsed = [present |-> TRUE, status |-> 200, parsed |-> items]
          /\ sections = SectionsFor(items, <<r1, r2>>)
  /\ csv_path = NoPath
  /\ job_status = EXTRACTED
  /\ error = NoError
  /\ logs = LogsAt("write_csv")
  /\ updated_at = 0
  /\ ext = NoRequests
  /\ fs = EmptyDir
  /\ response = [runs |-> 1]

WriteNext ==
  \/ WriteCsv
  \/ WriteAgain
  \/ GetDocumentSections

WriteSpec == WriteInit /\ [][WriteNext]_vars

\* the value a key of the listing holds, as a value of the index row
Listed(text) == Str(text)

\* C27: the listing read back from the index holds, row by row and in the
\* order of the sections, the value of each of the 16 columns that the
\* writer was handed for it.
C27_RoundTrip ==
  listing.status = 200 =>
    /\ listing.doc_id = doc_id
    /\ Len(listing.sections) = Len(sections)
    /\ \A k \in DOMAIN listing.sections :
         LET row == IndexRow(doc_id, sections[k])
             got == listing.sections[k]
         IN /\ got.section_id = row.section_id
            /\ Listed(got.level_1) = row.level_1
            /\ Listed(got.level_2) = row.level_2
            /\ Listed(got.level_3) = row.level_3
            /\ Listed(got.kwan) = row.kwan
            /\ Listed(got.jo) = row.jo
            /\ got.page_start = row.page_start
            /\ got.page_end = row.page_end
            /\ Listed(got.title) = row.title
            /\ got.para_count = row.para_count
            /\ got.char_count = row.char_count
            /\ got.has_table = row.has_table
            /\ got.has_figure = row.has_figure
            /\ got.extract_path = row.extract_path
            /\ got.json_path = row.json_path

\* C28: whenever a persist of the section list of a document has completed,
\* the first or a later one, the output directory is as a single persist of
\* that list into the empty directory leaves it: the same files with the
\* same contents and the same index rows.
C28_PersistIdempotent ==
  (pc = END /\ job_status = COMPLETED) =>
    fs = Persisted(EmptyDir, doc_id, sections)

\* a second persist of two sections completed and no write of either
\* persist failed
C28_Witness ==
  /\ pc = END
  /\ response.runs = 2
  /\ ext.write_fails = 0
  /\ job_status = COMPLETED
  /\ Len(sections) = 2
  /\ Len(IndexLines) = 2
  /\ Cardinality(ArtifactsOf(doc_id)) >= 2

\* the engine ran a node: a stage execution
StageExecuted == steps' = steps + 1

\* C29: every stage execution, failed or not, appends at least one entry to
\* state["logs"] and sets updated_at to the time of the execution; the
\* entries that were in the log stay in it.
C29_EveryStageLogs ==
  [][StageExecuted =>
       /\ logs' >= logs + 1
       /\ updated_at' = Now
       /\ updated_at' > updated_at]_vars

\* a run that ended after a detection call failed (one entry) and a
\* detection visit reported pages (two entries)
C29_Witness ==
  /\ pc = END
  /\ ext.nfail >= 1
  /\ toc_pages # <<>>
  /\ logs > steps
  /\ updated_at = steps

(***************************************************************************)
(* Two runs: write_csv of the run for doc_id and write_csv of a run for    *)
(* another document, in either order, on the same output directory         *)
(***************************************************************************)

\* document ids: two plain ones, and one that ends like an index file
PairDocs == {<<"d">>, <<"e">>, <<"d", "_parsed.csv">>}

\* the sections of the other run
PeerSections == SectionsFor(<<Entry(0, 0, "a")>>, <<ReadOk(Body)>>)

\* every write the environment lets a persist of the sections do
AllWrites(secs) == 2 * Len(secs) + 1

PairInit ==
  /\ pc = "write_csv"
  /\ steps = 0
  /\ listing = NoListing
  /\ window_size = MaxWindow
  /\ has_total = TRUE
  /\ total_pages = MaxPages
  /\ window_start = total_pages
  /\ toc_pages = <<0>>
  /\ spans = <<Span(0, 0, 3)>>
  /\ \E n \in 1..2, r1 \in WriteReads, r2 \in WriteReads :
       LET items == SubSeq(<<Entry(0, 0, "a"), Entry(1, 1, "a")>>, 1, n)
       IN /\ toc_parsed = [present |-> TRUE, status |-> 200, parsed |-> items]
          /\ sections = SectionsFor(items, <<r1, r2>>)
  /\ csv_path = NoPath
  /\ job_status = EXTRACTED
  /\ error = NoError
  /\ logs = LogsAt("write_csv")
  /\ updated_at = 0
  /\ ext = NoRequests
  /\ fs = EmptyDir
  /\ doc_id \in PairDocs
  /\ \E other \in PairDocs \ {doc_id} :
       response = [peer |-> [doc_id |-> other, sections |-> PeerSections,
                             pc |-> "write_csv", job_status |-> EXTRACTED,
                             csv_path |-> NoPath]]

\* write_csv of the other run, with no write failing on its own
PeerWriteCsv ==
  /\ response.peer.pc = "write_csv"
  /\ \E out \in {Persist(fs, response.peer.doc_id, response.peer.sections,
                         AllWrites(response.peer.sections))} :
       /\ fs' = out.dir
       /\ response' =
            [peer |-> [response.peer EXCEPT
               !.pc = END,
               !.job_status = IF out.done THEN COMPLETED
                              ELSE SetErrorStatus(@),
               !.csv_path = PathAfterWrite(@, response.peer.doc_id, out.done)]]
  /\ UNCHANGED <<pc, steps, stateVars, ext, listing>>

PairNext ==
  \/ WriteCsv
  \/ PeerWriteCsv

PairSpec == PairInit /\ [][PairNext]_vars

\* the run for doc, at write_csv with the sections secs, ended as it ends
\* alone in an empty output directory when no write fails on its own: with
\* that status and index path, and with its files holding what it wrote
AsAlone(doc, secs, status, path) ==
  LET alone == Persist(EmptyDir, doc, secs, AllWrites(secs))
  IN /\ (status = COMPLETED) = alone.done
     /\ path = PathAfterWrite(NoPath, doc, alone.done)
     /\ \A p \in DOMAIN alone.dir.files :
          p \in DOMAIN fs.files /\ fs.files[p] = alone.dir.files[p]

\* the paths a persist of the sections for doc creates
PathsOf(doc, secs) ==
  LET alone == Persist(EmptyDir, doc, secs, AllWrites(secs))
  IN alone.dir.dirs \cup DOMAIN alone.dir.files

\* C30: of two runs for different document ids whose stages interleave,
\* each ends with the state and the artifacts it ends with alone, and the
\* two write no path in common.
C30_RunsIndependent ==
  /\ (pc = END /\ ext.write_fails = 0) =>
       AsAlone(doc_id, sections, job_status, csv_path)
  /\ response.peer.pc = END =>
       AsAlone(response.peer.doc_id, response.peer.sections,
               response.peer.job_status, response.peer.csv_path)
  /\ (pc = END /\ response.peer.pc = END) =>
       PathsOf(doc_id, sections)
         \cap PathsOf(response.peer.doc_id, response.peer.sections) = {}


(***************************************************************************)
(* run_parsing_flow: what the caller receives after an exception           *)
(***************************************************************************)
\* a call of the run raised: the page-count lookup, a detection call, or
\* app.ainvoke itself
ExceptionRaised == ~ext.counted \/ ext.nfail >= 1 \/ error = E_ENGINE

\* C31: whenever a stage, an external call or the graph engine raised during
\* the run, the state run_parsing_flow returns has job_status failed and an
\* error message recorded.
C31_ExceptionEndsFailed ==
  (pc = END /\ ExceptionRaised) => (job_status = FAILED /\ error # NoError)


(***************************************************************************)
(* JobStatus: the order in which a completing run is said to pass through  *)
(* the states                                                              *)
(***************************************************************************)
StatusOrder ==
  <<IDLE, RUNNING, "detecting", DETECTED, "parsing", PARSED, "calculating",
    "extracting", "saving", COMPLETED>>

\* the position of a status in that order; 0 for a status that is not in it
StatusRank(status) ==
  IF \E i \in DOMAIN StatusOrder : StatusOrder[i] = status
  THEN CHOOSE i \in DOMAIN StatusOrder : StatusOrder[i] = status
  ELSE 0

\* C32: on a run that completes, job_status takes every state of the order
\* idle, running, detecting, detected, parsing, parsed, calculating,
\* extracting, saving, completed, and no step moves it from one of these
\* states to an earlier one.
C32_StatusSequence ==
  /\ [][(StatusRank(job_status) > 0 /\ StatusRank(job_status') > 0) =>
          StatusRank(job_status') >= StatusRank(job_status)]_vars
  /\ <>(pc = END /\ job_status = COMPLETED) =>
       \A i \in DOMAIN StatusOrder : <>(job_status = StatusOrder[i])


\* C33: a step that issues a span-extraction or outline-extraction request
\* starts in a state whose window cursor has reached total_pages.
C33_ScanBeforeExtract ==
  [][(ext'.span_reqs # ext.span_reqs \/ ext'.llm_reqs # ext.llm_reqs) =>
       (has_total /\ window_start >= total_pages)]_vars

\* both requests were issued for a document of two windows whose first
\* window already held the TOC page
C33_Witness ==
  /\ ext.span_reqs >= 1 /\ ext.llm_reqs >= 1
  /\ window_size = 1 /\ total_pages = 2 /\ window_start = 2
  /\ ext.nreq >= 2 /\ toc_pages = <<0>>


\* the text file and the JSON record of every section of the run exist
SectionArtifactsExist ==
  \A k \in DOMAIN sections :
    /\ ExtractPath(doc_id, FileKey(sections[k])) \in DOMAIN fs.files
    /\ JsonPath(doc_id, FileKey(sections[k])) \in DOMAIN fs.files

\* C34: a write_csv visit either completes, with the index and the text file
\* and JSON record of every section written, or ends failed and leaves the
\* index as it found it; after the visit an index is never present without
\* the artifacts of every section.
C34_IndexAfterSections ==
  [][(pc = "write_csv" /\ steps' = steps + 1) =>
       /\ job_status' \in {COMPLETED, FAILED}
       /\ job_status' = COMPLETED => IndexWritten'
       /\ job_status' = FAILED =>
            (IndexWritten' = IndexWritten /\ IndexLines' = IndexLines)
       /\ IndexWritten' => SectionArtifactsExist']_vars

\* the second run for a document failed while writing a section file, after
\* the first run had written the index
C34_Witness ==
  /\ pc = END /\ response.runs = 2
  /\ job_status = FAILED /\ ext.write_fails = 1
  /\ IndexWritten /\ SectionArtifactsExist


\* C35: a run that ends completed has no error recorded.
C35_CompletedHasNoError ==
  (pc = END /\ job_status = COMPLETED) => error = NoError


\* C36: once a stage has recorded an error, no stage that runs afterwards
\* replaces it: the error of the terminal state is the first one.
C36_FirstErrorKept ==
  [][(error # NoError /\ steps' = steps + 1) => error' = error]_vars


(***************************************************************************)
(* Persisting again after the outline of the document got shorter: a new   *)
(* run for the same document reaches write_csv with the first n of the     *)
(* sections, on the output directory the earlier run left                  *)
(***************************************************************************)
RerunShorter ==
  /\ pc = END
  /\ response.runs < MaxRuns
  /\ response' = [runs |-> response.runs + 1]
  /\ \E n \in 1..Len(sections) :
       /\ toc_parsed' = [toc_parsed EXCEPT !.parsed = SubSeq(@, 1, n)]
       /\ sections' = SubSeq(sections, 1, n)
  /\ pc' = "write_csv"
  /\ steps' = 0
  /\ csv_path' = NoPath
  /\ job_status' = EXTRACTED
  /\ error' = NoError
  /\ logs' = LogsAt("write_csv")
  /\ updated_at' = 0
  /\ UNCHANGED <<doc_id, listing, window_size, has_total, total_pages,
                 window_start, toc_pages, spans, ext, fs>>

RerunNext ==
  \/ WriteCsv
  \/ RerunShorter

RerunSpec == WriteInit /\ [][RerunNext]_vars

\* the text files and JSON records the run writes for its sections
SectionArtifacts ==
  UNION {{ExtractPath(doc_id, FileKey(sections[k])),
          JsonPath(doc_id, FileKey(sections[k]))} : k \in DOMAIN sections}

\* C37: after a run for a document has completed, the files in the
\* document's directory are exactly the text files and JSON records of the
\* sections that run persisted, also when an earlier run had persisted more.
C37_NoStaleArtifacts ==
  (pc = END /\ job_status = COMPLETED) => ArtifactsOf(doc_id) = SectionArtifacts


\* the step returns from a run in which so far no stage recorded an error,
\* every detection response was valid and a TOC page was reported, every
\* section was extracted from its fetched content, and in which no file
\* write of this step fails
CleanRunReturns ==
  /\ pc # END /\ pc' = END
  /\ error = NoError /\ ext.nfail = 0 /\ toc_pages # <<>>
  /\ \A k \in DOMAIN sections : sections[k].start_ok /\ ~sections[k].has_error
  /\ ext'.write_fails = ext.write_fails

\* C38: a run whose external calls all succeed with valid responses returns
\* completed, whatever the number of windows its document needs.
C38_CleanRunCompletes == [][CleanRunReturns => job_status' = COMPLETED]_vars

====
